---- MODULE Spec2Model ----
(***************************************************************************)
(* A model of imagemage: the Gemini API client (pkg/gemini/client.go), the *)
(* output namer/writer (pkg/filehandler/filehandler.go) and the generate,  *)
(* icon and edit commands (cmd/).                                          *)
(*                                                                         *)
(* Conventions.                                                            *)
(*  - A Go pointer is a sequence of length 0 (nil) or 1 (the pointee).     *)
(*  - A Go error is a record with a "kind" field; NoErr is the nil error.  *)
(*  - Strings the code only compares and passes on (image blobs,           *)
(*    resolutions, ratios, credentials) are TLA+ strings.                  *)
(*  - Strings the code looks into (prompts, file names, paths, error       *)
(*    messages) are sequences of one-character strings.                    *)
(*  - A string of a response is a record [id, len, has]: a name for its    *)
(*    contents, its byte length and the set of special bytes that occur    *)
(*    in it (all that the code inspects of a text of over 1000 bytes).     *)
(***************************************************************************)
EXTENDS Naturals, Integers, Sequences, FiniteSets, TLC

VARIABLES
    env,        \* the process environment: a function from the set variables to their values
    client,     \* the *Client of the last construction (<<>>: nil)
    inflight,   \* the HTTP request awaiting its response (<<>>: none)
    last,       \* the last client operation: its arguments or response, and what it returned
    fs,         \* the file system: a function from the paths of the files to their contents
    denied,     \* the directories whose entries cannot be looked up (stat and open fail)
    cmd,        \* the command invocation that runs or ran last, and where it is
    runs        \* the number of command invocations started so far

cmdVars == <<fs, denied, cmd, runs>>

vars == <<env, client, inflight, last, fs, denied, cmd, runs>>

(***************************************************************************)
(* Bounds of the model.                                                    *)
(***************************************************************************)
\* The longest list of reference images a call is given.
MaxImages == 2
\* The longest list of parts in a response candidate.
MaxParts == 2
\* The number of command invocations in one behaviour.
MaxRuns == 1
\* The largest --count of generate.
MaxCount == 2

\* The longest word that the prompts of SpecNames repeat.
MaxWordLen == 2

\* The most times SpecNames cleans a prompt over again.
MaxApply == 2

\* The most files SpecFiles writes one after another.
MaxWrites == 3

\* The invocations that run at the same time.
MaxProcs == 2

(***************************************************************************)
(* pkg/gemini/client.go: constants.                                        *)
(***************************************************************************)
ModelName == "gemini-3-pro-image-preview"

ModelNameFrugal == "gemini-2.5-flash-image"

BaseURL == "https://generativelanguage.googleapis.com/v1beta/models"

SupportedAspectRatios ==
    <<"1:1", "16:9", "9:16", "4:3", "3:4", "3:2", "2:3", "21:9", "5:4", "4:5">>

\* The credential variables, in the order getAPIKey reads them.
APIKeyNames ==
    <<"NANOBANANA_GEMINI_API_KEY", "NANOBANANA_GOOGLE_API_KEY",
      "GEMINI_API_KEY", "GOOGLE_API_KEY">>

\* The least length a response text must exceed to be taken as image data.
MinTextLen == 1000

NoErr == [kind |-> "nil"]

Range(s) == {s[i] : i \in 1..Len(s)}

(***************************************************************************)
(* os.Getenv: the value of a set variable, "" for an unset one.            *)
(***************************************************************************)
Getenv(e, key) == IF key \in DOMAIN e THEN e[key] ELSE ""

(***************************************************************************)
(* getAPIKey: the first non-empty value in the order of APIKeyNames.       *)
(***************************************************************************)
RECURSIVE getAPIKeyFrom(_, _)
getAPIKeyFrom(e, i) ==
    IF i > Len(APIKeyNames) THEN ""
    ELSE IF Getenv(e, APIKeyNames[i]) # "" THEN Getenv(e, APIKeyNames[i])
    ELSE getAPIKeyFrom(e, i + 1)

\* A getAPIKey that takes the first variable that is set, empty or not.
getAPIKeyFirstSet(e) ==
    IF \E i \in 1..Len(APIKeyNames) : APIKeyNames[i] \in DOMAIN e
    THEN e[APIKeyNames[CHOOSE i \in 1..Len(APIKeyNames) :
                          /\ APIKeyNames[i] \in DOMAIN e
                          /\ \A j \in 1..(i - 1) : APIKeyNames[j] \notin DOMAIN e]]
    ELSE ""

getAPIKey(e) == getAPIKeyFrom(e, 1)

(***************************************************************************)
(* NewClientWithModel: [client, err].                                      *)
(***************************************************************************)
NewClientWithModel(e, model) ==
    LET apiKey == getAPIKey(e) IN
    IF apiKey = ""
    THEN [client |-> <<>>, err |-> [kind |-> "API key not found"]]
    ELSE [client |-> <<[apiKey |-> apiKey, model |-> model, baseURL |-> BaseURL]>>,
          err |-> NoErr]

NewClient(e) == NewClientWithModel(e, ModelName)

NewFrugalClient(e) == NewClientWithModel(e, ModelNameFrugal)

(***************************************************************************)
(* ValidateAspectRatio: the error (NoErr for nil).                         *)
(***************************************************************************)
\* A ValidateAspectRatio whose list lacks its last entry.
ValidateAspectRatioShort(aspectRatio) ==
    IF aspectRatio = "" THEN NoErr
    ELSE IF \E i \in 1..(Len(SupportedAspectRatios) - 1) : aspectRatio = SupportedAspectRatios[i]
    THEN NoErr
    ELSE [kind |-> "unsupported aspect ratio", value |-> aspectRatio,
          supported |-> SupportedAspectRatios]

ValidateAspectRatio(aspectRatio) ==
    IF aspectRatio = "" THEN NoErr
    ELSE IF \E i \in 1..Len(SupportedAspectRatios) : aspectRatio = SupportedAspectRatios[i]
    THEN NoErr
    ELSE [kind |-> "unsupported aspect ratio", value |-> aspectRatio,
          supported |-> SupportedAspectRatios]

(***************************************************************************)
(* Strings of a response.  A text or an inline-data value of a response is *)
(* [id, len, has]: a name for its contents, its length in bytes            *)
(* (Go's len) and the set of whitespace bytes it contains                  *)
(* (strings.Contains of a one-byte string).                                *)
(***************************************************************************)
EmptyStr == [id |-> "", len |-> 0, has |-> {}]

StrContains(s, ch) == ch \in s.has

(***************************************************************************)
(* Strings of an error message: sequences of one-character strings.        *)
(***************************************************************************)
UpperChars ==
    <<"A", "B", "C", "D", "E", "F", "G", "H", "I", "J", "K", "L", "M",
      "N", "O", "P", "Q", "R", "S", "T", "U", "V", "W", "X", "Y", "Z">>

LowerChars ==
    <<"a", "b", "c", "d", "e", "f", "g", "h", "i", "j", "k", "l", "m",
      "n", "o", "p", "q", "r", "s", "t", "u", "v", "w", "x", "y", "z">>

\* strings.ToLower, on one character and on a string.
ToLowerChar(c) ==
    IF \E i \in 1..Len(UpperChars) : UpperChars[i] = c
    THEN LowerChars[CHOOSE i \in 1..Len(UpperChars) : UpperChars[i] = c]
    ELSE c

ToLower(s) == [i \in 1..Len(s) |-> ToLowerChar(s[i])]

\* strings.Contains: sub occurs in s as a contiguous run.
Contains(s, sub) ==
    \E i \in 0..(Len(s) - Len(sub)) :
        \A j \in 1..Len(sub) : s[i + j] = sub[j]

(***************************************************************************)
(* json.Marshal of the request: a field tagged omitempty is <<>> when      *)
(* its value is the empty string or a nil pointer, <<value>> otherwise.    *)
(***************************************************************************)
OmitEmpty(s) == IF Len(s) = 0 THEN <<>> ELSE <<s>>

MarshalPart(p) ==
    [text |-> OmitEmpty(p.Text),
     inlineData |-> IF p.InlineData = <<>> THEN <<>>
                    ELSE <<[mimeType |-> p.InlineData[1].MimeType,
                            data |-> p.InlineData[1].Data]>>]

MarshalContent(c) ==
    [role |-> c.Role, parts |-> [i \in 1..Len(c.Parts) |-> MarshalPart(c.Parts[i])]]

MarshalImageConfig(ic) ==
    [aspectRatio |-> OmitEmpty(ic.AspectRatio), imageSize |-> OmitEmpty(ic.ImageSize)]

Marshal(reqBody) ==
    [contents |-> [i \in 1..Len(reqBody.Contents) |-> MarshalContent(reqBody.Contents[i])],
     generationConfig |->
        IF reqBody.GenerationConfig = <<>> THEN <<>>
        ELSE <<[imageConfig |->
                  IF reqBody.GenerationConfig[1].ImageConfig = <<>> THEN <<>>
                  ELSE <<MarshalImageConfig(reqBody.GenerationConfig[1].ImageConfig[1])>>]>>]

(***************************************************************************)
(* GenerateContentWithFullOptions, up to the dispatch.                     *)
(***************************************************************************)
\* An inline part of the request has data.
HasData(part) == part.InlineData[1].Data # ""

\* A loop over imagesBase64 that puts each image before the ones added so far.
ImagePartsReversed(imagesBase64) ==
    SelectSeq([k \in 1..Len(imagesBase64) |->
                  [Text |-> "",
                   InlineData |-> <<[MimeType |-> "image/png",
                                     Data |-> imagesBase64[Len(imagesBase64) + 1 - k]]>>]],
              HasData)

\* The loop over imagesBase64: one inline part per non-empty image, in order.
RECURSIVE ImageParts(_)
ImageParts(imagesBase64) ==
    IF imagesBase64 = <<>> THEN <<>>
    ELSE (IF Head(imagesBase64) # ""
          THEN <<[Text |-> "",
                  InlineData |-> <<[MimeType |-> "image/png", Data |-> Head(imagesBase64)]>>]>>
          ELSE <<>>)
         \o ImageParts(Tail(imagesBase64))

\* An ImageSizeFor that passes an explicit resolution on to the frugal model.
ImageSizeForPassThrough(model, resolution) ==
    IF model # ModelNameFrugal
    THEN (IF resolution = "" THEN "4K" ELSE resolution)
    ELSE resolution

\* An ImageSizeFor without the default of the Pro model.
ImageSizeForNoDefault(model, resolution) ==
    IF model # ModelNameFrugal THEN resolution ELSE ""

\* The imageSize of the image configuration: set unless the model is the frugal one.
ImageSizeFor(model, resolution) ==
    IF model # ModelNameFrugal
    THEN (IF resolution = "" THEN "4K" ELSE resolution)
    ELSE ""

\* The request body as built in memory.
RequestBody(c, prompt, imagesBase64, resolution, aspectRatio) ==
    [Contents |-> <<[Role |-> "user",
                     Parts |-> <<[Text |-> prompt, InlineData |-> <<>>]>>
                               \o ImageParts(imagesBase64)]>>,
     GenerationConfig |->
        <<[ImageConfig |-> <<[AspectRatio |-> aspectRatio,
                              ImageSize |-> ImageSizeFor(c.model, resolution)]>>]>>]

\* The HTTP request handed to httpClient.Do.
HTTPRequest(c, jsonData) ==
    [method |-> "POST",
     baseURL |-> IF c.baseURL = "" THEN BaseURL ELSE c.baseURL,
     model |-> IF c.model = "" THEN ModelName ELSE c.model,
     key |-> c.apiKey,
     contentType |-> "application/json",
     body |-> jsonData]

\* A PrepareRequest that builds the request first and validates afterwards.
PrepareRequestLateValidation(c, prompt, imagesBase64, resolution, aspectRatio) ==
    [err |-> ValidateAspectRatio(aspectRatio),
     req |-> <<HTTPRequest(c, Marshal(RequestBody(c, prompt, imagesBase64,
                                                  resolution, aspectRatio)))>>]

\* [err, req]: the validation error and no request, or the request to send.
PrepareRequest(c, prompt, imagesBase64, resolution, aspectRatio) ==
    LET verr == ValidateAspectRatio(aspectRatio) IN
    IF verr # NoErr
    THEN [err |-> verr, req |-> <<>>]
    ELSE [err |-> NoErr,
          req |-> <<HTTPRequest(c, Marshal(RequestBody(c, prompt, imagesBase64,
                                                       resolution, aspectRatio)))>>]

(***************************************************************************)
(* handleError: the error for a response whose status is not 200.  body is *)
(* [parsed, raw]: parsed is <<>> when json.Unmarshal fails and             *)
(* <<GenerateResponse>> otherwise; raw is the text of the body.            *)
(***************************************************************************)
SafetyWord == <<"s", "a", "f", "e", "t", "y">>

APIKeyNotValidWords == <<"a", "p", "i", " ", "k", "e", "y", " ", "n", "o", "t", " ", "v", "a", "l", "i", "d">>

QuotaWord == <<"q", "u", "o", "t", "a">>

\* A classification of 400 that never looks for "safety".
handleError400IgnoreSafety(bodyStr) == [kind |-> "malformed request", message |-> bodyStr]

\* A classification of 400 whose safety error keeps the message.
handleError400WithDetails(bodyStr) ==
    IF Contains(bodyStr, SafetyWord)
    THEN [kind |-> "request rejected due to safety concerns", message |-> bodyStr]
    ELSE [kind |-> "malformed request", message |-> bodyStr]

\* handleError, case 400.
handleError400(bodyStr) ==
    IF Contains(bodyStr, SafetyWord)
    THEN [kind |-> "request rejected due to safety concerns"]
    ELSE [kind |-> "malformed request", message |-> bodyStr]

\* A classification of 403 that looks for "quota" as it is written.
handleError403QuotaCaseSensitive(bodyStr) ==
    IF Contains(ToLower(bodyStr), APIKeyNotValidWords)
    THEN [kind |-> "invalid API key"]
    ELSE IF Contains(bodyStr, QuotaWord)
    THEN [kind |-> "API quota exceeded"]
    ELSE [kind |-> "authentication failed", message |-> bodyStr]

\* handleError, case 403.
handleError403(bodyStr) ==
    IF Contains(ToLower(bodyStr), APIKeyNotValidWords)
    THEN [kind |-> "invalid API key"]
    ELSE IF Contains(ToLower(bodyStr), QuotaWord)
    THEN [kind |-> "API quota exceeded"]
    ELSE [kind |-> "authentication failed", message |-> bodyStr]

\* The message handleError classifies: the message of the error object when the
\* body parses to one, the text of the body otherwise.
ErrorBodyStr(body) ==
    IF body.parsed # <<>> /\ body.parsed[1].Error # <<>>
    THEN body.parsed[1].Error[1].Message
    ELSE body.raw

handleError(statusCode, body) ==
    LET bodyStr == ErrorBodyStr(body)
    IN  CASE statusCode = 400 -> handleError400(bodyStr)
          [] statusCode = 403 -> handleError403(bodyStr)
          [] statusCode = 500 -> [kind |-> "service error", message |-> bodyStr]
          [] OTHER -> [kind |-> "HTTP", status |-> statusCode, message |-> bodyStr]

(***************************************************************************)
(* extractImageData: the data of the first part of the first candidate     *)
(* that qualifies, EmptyStr when none does.                                *)
(***************************************************************************)
\* The inline-data rule on one part.
HasInlineData(part) == part.InlineData # <<>> /\ part.InlineData[1].Data # EmptyStr

\* A text rule whose length test is >= instead of >.
LooksLikeBase64AtLeast(text) ==
    /\ text # EmptyStr
    /\ text.len >= MinTextLen
    /\ ~StrContains(text, " ")
    /\ ~StrContains(text, "\n")

\* The text rule on one part.
LooksLikeBase64(text) ==
    /\ text # EmptyStr
    /\ text.len > MinTextLen
    /\ ~StrContains(text, " ")
    /\ ~StrContains(text, "\n")

RECURSIVE ScanParts(_)
ScanParts(parts) ==
    IF parts = <<>> THEN EmptyStr
    ELSE IF HasInlineData(Head(parts)) THEN Head(parts).InlineData[1].Data
    ELSE IF LooksLikeBase64(Head(parts).Text) THEN Head(parts).Text
    ELSE ScanParts(Tail(parts))

\* An extractImageData that goes on to the second candidate when the first yields nothing.
extractImageDataAnyCandidate(result) ==
    IF Len(result.Candidates) = 0 THEN EmptyStr
    ELSE IF ScanParts(result.Candidates[1].Content.Parts) # EmptyStr
            \/ Len(result.Candidates) = 1
    THEN ScanParts(result.Candidates[1].Content.Parts)
    ELSE ScanParts(result.Candidates[2].Content.Parts)

extractImageData(result) ==
    IF Len(result.Candidates) = 0 THEN EmptyStr
    ELSE ScanParts(result.Candidates[1].Content.Parts)

(***************************************************************************)
(* GenerateContentWithFullOptions, from httpClient.Do on: [data, err].     *)
(* resp is [transport, status, body]; transport is "ok", "sendError" (Do   *)
(* fails) or "readError" (reading the body fails).                         *)
(***************************************************************************)
ProcessResponse(resp) ==
    IF resp.transport = "sendError"
    THEN [data |-> EmptyStr, err |-> [kind |-> "failed to send request"]]
    ELSE IF resp.transport = "readError"
    THEN [data |-> EmptyStr, err |-> [kind |-> "failed to read response"]]
    ELSE IF resp.status # 200
    THEN [data |-> EmptyStr, err |-> handleError(resp.status, resp.body)]
    ELSE IF resp.body.parsed = <<>>
    THEN [data |-> EmptyStr, err |-> [kind |-> "failed to unmarshal response"]]
    ELSE LET result == resp.body.parsed[1] IN
         IF result.Error # <<>>
         THEN [data |-> EmptyStr,
               err |-> [kind |-> "API error", code |-> result.Error[1].Code,
                        message |-> result.Error[1].Message]]
         ELSE LET imageData == extractImageData(result) IN
              IF imageData = EmptyStr
              THEN [data |-> EmptyStr, err |-> [kind |-> "no image data found in response"]]
              ELSE [data |-> imageData, err |-> NoErr]

(***************************************************************************)
(* The entry points that delegate to GenerateContentWithFullOptions: the   *)
(* arguments each passes on.                                               *)
(***************************************************************************)
FullOptionsArgs(prompt, imagesBase64, resolution, aspectRatio) ==
    [prompt |-> prompt, images |-> imagesBase64, resolution |-> resolution,
     aspectRatio |-> aspectRatio]

WithOptionsArgs(prompt, imageBase64, aspectRatio) ==
    FullOptionsArgs(prompt, IF imageBase64 # "" THEN <<imageBase64>> ELSE <<>>, "", aspectRatio)

WithResolutionArgs(prompt, resolution, aspectRatio) ==
    FullOptionsArgs(prompt, <<>>, resolution, aspectRatio)

WithImagesArgs(prompt, imagesBase64, aspectRatio) ==
    FullOptionsArgs(prompt, imagesBase64, "", aspectRatio)

WithImageArgs(prompt, imageBase64) == WithImagesArgs(prompt, <<imageBase64>>, "")

GenerateContentArgs(prompt) == WithOptionsArgs(prompt, "", "")

(***************************************************************************)
(* pkg/filehandler/filehandler.go: file names.                             *)
(***************************************************************************)
DigitChars == <<"0", "1", "2", "3", "4", "5", "6", "7", "8", "9">>

\* The characters \s of Go's regexp matches.
SpaceChars == {" ", "\t", "\n", "\f", "\r"}

\* The characters [a-z0-9\s-] that the first regexp of cleanPrompt keeps.
KeptChar(c) == c \in Range(LowerChars) \cup Range(DigitChars) \cup SpaceChars \cup {"-"}

\* A character of the prompt is kept by the second regexp unless it is whitespace
\* followed by whitespace (the run it is in goes on).
NotDropped(c) == c # ""

\* regexp \s+ replaced by "_": every maximal run of whitespace becomes one underscore.
CollapseSpaces(s) ==
    SelectSeq([i \in 1..Len(s) |->
                  IF s[i] \notin SpaceChars THEN s[i]
                  ELSE IF i < Len(s) /\ s[i + 1] \in SpaceChars THEN ""
                  ELSE "_"],
              NotDropped)

\* strings.Trim(s, "_").
TrimUnderscores(s) ==
    LET kept == {i \in 1..Len(s) : s[i] # "_"} IN
    IF kept = {} THEN <<>>
    ELSE SubSeq(s, CHOOSE i \in kept : \A j \in kept : i <= j,
                   CHOOSE i \in kept : \A j \in kept : i >= j)

cleanPrompt(prompt) ==
    TrimUnderscores(CollapseSpaces(SelectSeq(ToLower(prompt), KeptChar)))

\* The longest cleaned prompt GenerateFilename keeps.
maxLen == 50

\* %d of a count >= 0.
RECURSIVE Itoa(_)
Itoa(n) ==
    IF n < 10 THEN <<DigitChars[n + 1]>>
    ELSE Itoa(n \div 10) \o <<DigitChars[(n % 10) + 1]>>

PngExt == <<".", "p", "n", "g">>

\* A GenerateFilename that keeps the cleaned prompt whole.
GenerateFilenameUntruncated(prompt, prefix, count) ==
    LET cleaned == cleanPrompt(prompt)
        filename0 == IF prefix # <<>> THEN prefix \o <<"_">> \o cleaned ELSE cleaned
        filename == IF count > 0 THEN filename0 \o <<"_">> \o Itoa(count) ELSE filename0
    IN  filename \o PngExt

GenerateFilename(prompt, prefix, count) ==
    LET cleaned0 == cleanPrompt(prompt)
        cleaned == IF Len(cleaned0) > maxLen THEN SubSeq(cleaned0, 1, maxLen) ELSE cleaned0
        filename0 == IF prefix # <<>> THEN prefix \o <<"_">> \o cleaned ELSE cleaned
        filename == IF count > 0 THEN filename0 \o <<"_">> \o Itoa(count) ELSE filename0
    IN  filename \o PngExt

(***************************************************************************)
(* path/filepath, on paths without "..", doubled or trailing slashes.      *)
(***************************************************************************)
\* The index of the last "/" of the path, 0 when it has none.
LastSlash(path) ==
    IF \E i \in 1..Len(path) : path[i] = "/"
    THEN CHOOSE i \in 1..Len(path) : path[i] = "/" /\ \A j \in (i + 1)..Len(path) : path[j] # "/"
    ELSE 0

\* filepath.Join(dir, name) for a directory "." or a plain name.
JoinPath(dir, name) ==
    IF dir = <<".">> \/ dir = <<>> THEN name ELSE dir \o <<"/">> \o name

\* filepath.Dir.
DirOf(path) ==
    IF LastSlash(path) = 0 THEN <<".">>
    ELSE IF LastSlash(path) = 1 THEN <<"/">>
    ELSE SubSeq(path, 1, LastSlash(path) - 1)

\* filepath.Base.
BaseOf(path) == SubSeq(path, LastSlash(path) + 1, Len(path))

\* filepath.Ext: from the last "." of the last element on, empty when it has none.
Ext(path) ==
    IF \E i \in (LastSlash(path) + 1)..Len(path) : path[i] = "."
    THEN LET i == CHOOSE k \in (LastSlash(path) + 1)..Len(path) :
                      path[k] = "." /\ \A j \in (k + 1)..Len(path) : path[j] # "."
         IN  SubSeq(path, i, Len(path))
    ELSE <<>>

\* strings.TrimSuffix.
TrimSuffix(s, suffix) ==
    IF Len(suffix) <= Len(s) /\ SubSeq(s, Len(s) - Len(suffix) + 1, Len(s)) = suffix
    THEN SubSeq(s, 1, Len(s) - Len(suffix))
    ELSE s

(***************************************************************************)
(* The inputs of the model.                                                *)
(***************************************************************************)
\* Every environment: each credential variable unset, set to "" or set to its own key.
Envs ==
    {e \in UNION {[S -> {"", "key-1", "key-2", "key-3", "key-4"}] :
                    S \in SUBSET Range(APIKeyNames)} :
        \A i \in 1..Len(APIKeyNames) :
            APIKeyNames[i] \in DOMAIN e =>
                e[APIKeyNames[i]] \in {"", <<"key-1", "key-2", "key-3", "key-4">>[i]}}

\* Two environments: no credential, and one credential.
EnvsSmall == {<<>>, [k \in {"GEMINI_API_KEY"} |-> "key-3"]}

Prompts == {<<>>, <<"f", "o", "x">>}

Images == {"", "imgA", "imgB"}

ImageLists == UNION {[1..n -> Images] : n \in 0..MaxImages}

Resolutions == {"", "1K", "2K", "4K", "8K"}

AspectRatios == Range(SupportedAspectRatios) \cup {"", "16:10", "1:1 ", "16x9"}

\* The aspect ratios the calls are given: unset, supported and unsupported ones.
CallAspectRatios == {"", "1:1", "21:9", "16:10", "1:1 "}

\* The resolutions and aspect ratios of the specifications that vary something else.
FewResolutions == {"", "2K"}

FewAspectRatios == {"", "1:1", "16:10"}

\* Response texts: short, at the threshold, above it, and with one whitespace byte.
Texts ==
    {EmptyStr,
     [id |-> "t1000", len |-> MinTextLen, has |-> {}],
     [id |-> "t1001", len |-> MinTextLen + 1, has |-> {}],
     [id |-> "t1500", len |-> 1500, has |-> {}],
     [id |-> "t1500 space", len |-> 1500, has |-> {" "}],
     [id |-> "t1500 newline", len |-> 1500, has |-> {"\n"}],
     [id |-> "t1500 tab", len |-> 1500, has |-> {"\t"}],
     [id |-> "t1500 cr", len |-> 1500, has |-> {"\r"}]}

InlineDatas ==
    {<<>>,
     <<[MimeType |-> "image/png", Data |-> EmptyStr]>>,
     <<[MimeType |-> "image/png", Data |-> [id |-> "png1", len |-> 8, has |-> {}]]>>}

ResponseParts == [Text : Texts, InlineData : InlineDatas]

PartLists == UNION {[1..n -> ResponseParts] : n \in 0..MaxParts}

Candidate(parts) == [Content |-> [Role |-> "model", Parts |-> parts]]

\* A candidate after the first: one inline image of its own.
OtherCandidate ==
    Candidate(<<[Text |-> EmptyStr,
                 InlineData |-> <<[MimeType |-> "image/png",
                                   Data |-> [id |-> "png9", len |-> 8, has |-> {}]]>>]>>)

CandidateLists ==
    {<<>>} \cup {<<Candidate(ps)>> : ps \in PartLists}
           \cup {<<Candidate(ps), OtherCandidate>> : ps \in PartLists}

Messages ==
    {<<"s", "a", "f", "e", "t", "y", " ", "f", "i", "l", "t", "e", "r">>,
     <<"S", "a", "f", "e", "t", "y", " ", "f", "i", "l", "t", "e", "r">>,
     <<"A", "P", "I", " ", "k", "e", "y", " ", "n", "o", "t", " ", "v", "a", "l", "i", "d">>,
     <<"a", "p", "i", " ", "k", "e", "y", " ", "n", "o", "t", " ", "v", "a", "l", "i", "d", " ", "q", "u", "o", "t", "a">>,
     <<"q", "u", "o", "t", "a", " ", "e", "x", "c", "e", "e", "d", "e", "d">>,
     <<"Q", "u", "o", "t", "a", " ", "e", "x", "c", "e", "e", "d", "e", "d">>,
     <<"Q", "U", "O", "T", "A">>,
     <<"b", "a", "d", " ", "r", "e", "q", "u", "e", "s", "t">>}

ErrorInfos == {[Code |-> c, Message |-> m, Status |-> "ERR"] : c \in {400, 403}, m \in Messages}

OkBody(cands) == [parsed |-> <<[Candidates |-> cands, Error |-> <<>>]>>, raw |-> <<"{", "}">>]

ErrBody(e) == [parsed |-> <<[Candidates |-> <<>>, Error |-> <<e>>]>>, raw |-> <<"{", "}">>]

PlainBody(m) == [parsed |-> <<>>, raw |-> m]

Bodies ==
    {OkBody(<<>>), OkBody(<<Candidate(<<>>), OtherCandidate>>)}
        \cup {ErrBody(e) : e \in ErrorInfos} \cup {PlainBody(m) : m \in Messages}

Responses ==
    {[transport |-> t, status |-> 0, body |-> PlainBody(<<>>)] : t \in {"sendError", "readError"}}
    \cup {[transport |-> "ok", status |-> 200, body |-> OkBody(cs)] : cs \in CandidateLists}
    \cup {[transport |-> "ok", status |-> st, body |-> b] :
            st \in {200, 400, 403, 404, 500}, b \in Bodies}

\* The inputs of the credential specification: one call, a few responses.
ResponsesSmall ==
    {[transport |-> "sendError", status |-> 0, body |-> PlainBody(<<>>)],
     [transport |-> "ok", status |-> 200, body |-> OkBody(<<OtherCandidate>>)],
     [transport |-> "ok", status |-> 200, body |-> OkBody(<<>>)]}

(***************************************************************************)
(* The client's operations.                                                *)
(***************************************************************************)
\* No command has run.
NoCmd == [name |-> "none", phase |-> "done", err |-> NoErr]

Idle == inflight = <<>>

ClientInit(E) ==
    /\ env \in E
    /\ client = <<>>
    /\ inflight = <<>>
    /\ last = [op |-> "none", err |-> NoErr]
    /\ fs = <<>>
    /\ denied = {}
    /\ cmd = NoCmd
    /\ runs = 0

\* NewClient / NewFrugalClient: the client is the one returned (nil on failure).
Construct(op, r) ==
    /\ client' = r.client
    /\ last' = [op |-> op, err |-> r.err]
    /\ UNCHANGED <<env, inflight>>
    /\ UNCHANGED cmdVars

DoNewClient ==
    /\ Idle
    /\ Construct("NewClient", NewClient(env))

DoNewFrugalClient ==
    /\ Idle
    /\ Construct("NewFrugalClient", NewFrugalClient(env))

\* ValidateAspectRatio, called on its own (the commands do, before constructing a client).
DoValidateAspectRatio ==
    /\ Idle
    /\ \E ar \in AspectRatios :
          last' = [op |-> "ValidateAspectRatio", aspectRatio |-> ar,
                   err |-> ValidateAspectRatio(ar)]
    /\ UNCHANGED <<env, client, inflight>>
    /\ UNCHANGED cmdVars

\* A GenerateContent* call up to its dispatch: it returns the validation error, or
\* sends its request and waits.
Enter(op, a) ==
    /\ client # <<>>
    /\ LET p == PrepareRequest(client[1], a.prompt, a.images, a.resolution, a.aspectRatio) IN
          /\ inflight' = p.req
          /\ last' = [op |-> op, phase |-> "entered", args |-> a, data |-> EmptyStr,
                      err |-> p.err]
    /\ UNCHANGED <<env, client>>
    /\ UNCHANGED cmdVars

DoGenerateContent(P) ==
    /\ Idle
    /\ \E prompt \in P :
          Enter("GenerateContent", GenerateContentArgs(prompt))

DoGenerateContentWithImage(P, I) ==
    /\ Idle
    /\ \E prompt \in P, img \in I :
          Enter("GenerateContentWithImage", WithImageArgs(prompt, img))

DoGenerateContentWithImages(P, IL, A) ==
    /\ Idle
    /\ \E prompt \in P, imgs \in IL, ar \in A :
          Enter("GenerateContentWithImages", WithImagesArgs(prompt, imgs, ar))

DoGenerateContentWithResolution(P, R, A) ==
    /\ Idle
    /\ \E prompt \in P, res \in R, ar \in A :
          Enter("GenerateContentWithResolution", WithResolutionArgs(prompt, res, ar))

DoGenerateContentWithOptions(P, I, A) ==
    /\ Idle
    /\ \E prompt \in P, img \in I, ar \in A :
          Enter("GenerateContentWithOptions", WithOptionsArgs(prompt, img, ar))

DoGenerateContentWithFullOptions(P, IL, R, A) ==
    /\ Idle
    /\ \E prompt \in P, imgs \in IL, res \in R, ar \in A :
          Enter("GenerateContentWithFullOptions", FullOptionsArgs(prompt, imgs, res, ar))

\* The rest of the call: the response arrives (or the transport fails) and the call returns.
Return(RS) ==
    /\ inflight # <<>>
    /\ \E resp \in RS :
          LET r == ProcessResponse(resp) IN
          last' = [op |-> last.op, phase |-> "returned", resp |-> resp, data |-> r.data,
                   err |-> r.err]
    /\ inflight' = <<>>
    /\ UNCHANGED <<env, client>>
    /\ UNCHANGED cmdVars

(***************************************************************************)
(* Spec: the request side.  Every entry point with every argument, a few   *)
(* responses.                                                              *)
(***************************************************************************)
Init == ClientInit(EnvsSmall)

Next ==
    \/ DoNewClient
    \/ DoNewFrugalClient
    \/ DoValidateAspectRatio
    \/ DoGenerateContent(Prompts)
    \/ DoGenerateContentWithImage(Prompts, Images)
    \/ DoGenerateContentWithImages(Prompts, ImageLists, CallAspectRatios)
    \/ DoGenerateContentWithResolution(Prompts, Resolutions, CallAspectRatios)
    \/ DoGenerateContentWithOptions(Prompts, Images, CallAspectRatios)
    \/ DoGenerateContentWithFullOptions(Prompts, ImageLists, Resolutions, CallAspectRatios)
    \/ Return(ResponsesSmall)

Spec == Init /\ [][Next]_vars

(***************************************************************************)
(* SpecResp: the response side.  A few calls, every response.              *)
(***************************************************************************)
NextResp ==
    \/ DoNewClient
    \/ DoNewFrugalClient
    \/ DoGenerateContent(Prompts)
    \/ DoGenerateContentWithResolution(Prompts, FewResolutions, FewAspectRatios)
    \/ Return(Responses)

SpecResp == Init /\ [][NextResp]_vars

(***************************************************************************)
(* SpecAuth: client construction under every environment.                  *)
(***************************************************************************)
InitAuth == ClientInit(Envs)

NextAuth ==
    \/ DoNewClient
    \/ DoNewFrugalClient
    \/ DoGenerateContent(Prompts)
    \/ DoGenerateContentWithResolution(Prompts, FewResolutions, FewAspectRatios)
    \/ Return(ResponsesSmall)

SpecAuth == InitAuth /\ [][NextAuth]_vars

(***************************************************************************)
(* pkg/filehandler/filehandler.go: files.  A file's contents are           *)
(* [bytes, size, meta]: a name for the image, the side it was resized to   *)
(* (0: not resized) and the prompt embedded in it (<<>>: none).            *)
(***************************************************************************)
\* os.Stat: "ok" (err == nil), "notexist" (os.IsNotExist(err)) or "error".
Stat(f, den, path) ==
    IF DirOf(path) \in den THEN "error"
    ELSE IF path \in DOMAIN f THEN "ok"
    ELSE "notexist"

\* The file system with the file at path set to contents.
WithFile(f, path, contents) ==
    [q \in DOMAIN f \cup {path} |-> IF q = path THEN contents ELSE f[q]]

\* The loop of EnsureUniqueFilename from counter on.  Its probes all lie in one
\* directory: when none of the first Cardinality(DOMAIN f) + 1 reports a missing
\* file, every later one fails like them and the loop never ends.
RECURSIVE ProbeFrom(_, _, _, _, _)
ProbeFrom(f, den, base, ext, counter) ==
    LET newPath == base \o <<"_">> \o Itoa(counter) \o ext IN
    IF counter > Cardinality(DOMAIN f) + 1 THEN [returns |-> FALSE, path |-> <<>>]
    ELSE IF Stat(f, den, newPath) = "notexist" THEN [returns |-> TRUE, path |-> newPath]
    ELSE ProbeFrom(f, den, base, ext, counter + 1)

\* An EnsureUniqueFilename that returns the path it is given.
EnsureUniqueFilenameUnchecked(f, den, path) == [returns |-> TRUE, path |-> path]

\* An EnsureUniqueFilename whose counter starts at 2.
EnsureUniqueFilenameFromTwo(f, den, path) ==
    IF Stat(f, den, path) = "notexist" THEN [returns |-> TRUE, path |-> path]
    ELSE ProbeFrom(f, den, TrimSuffix(path, Ext(path)), Ext(path), 2)

\* EnsureUniqueFilename: [returns, path].
EnsureUniqueFilename(f, den, path) ==
    IF Stat(f, den, path) = "notexist" THEN [returns |-> TRUE, path |-> path]
    ELSE ProbeFrom(f, den, TrimSuffix(path, Ext(path)), Ext(path), 1)

\* base64.StdEncoding.DecodeString succeeds: every byte is of the alphabet and
\* the length is a multiple of four.
DecodeOk(imageData) == imageData.has = {} /\ imageData.len % 4 = 0

\* What is left of a file whose writing failed half way.
PartialFile == [bytes |-> "partial", size |-> 0, meta |-> <<>>]

\* SaveImage: [fs, err].  io is what the operating system does: "ok", "mkdirError",
\* "openError" or "writeError" (the file is created, the write fails).
SaveImage(f, den, imageData, outputPath, io) ==
    IF ~DecodeOk(imageData)
    THEN [fs |-> f, err |-> [kind |-> "failed to decode image data"]]
    ELSE IF DirOf(outputPath) # <<".">> /\ io = "mkdirError"
    THEN [fs |-> f, err |-> [kind |-> "failed to create directory"]]
    ELSE IF DirOf(outputPath) \in den \/ io = "openError"
    THEN [fs |-> f, err |-> [kind |-> "failed to write image"]]
    ELSE IF io = "writeError"
    THEN [fs |-> WithFile(f, outputPath, PartialFile),
          err |-> [kind |-> "failed to write image"]]
    ELSE [fs |-> WithFile(f, outputPath,
                          [bytes |-> imageData.id, size |-> 0, meta |-> <<>>]),
          err |-> NoErr]

\* ResizeAndSaveImage: [fs, err].  io is "ok", "imageError" (image.Decode fails),
\* "mkdirError", "openError" (os.Create fails) or "writeError" (png.Encode fails).
ResizeAndSaveImage(f, den, imageData, size, outputPath, io) ==
    IF ~DecodeOk(imageData)
    THEN [fs |-> f, err |-> [kind |-> "failed to decode image data"]]
    ELSE IF io = "imageError"
    THEN [fs |-> f, err |-> [kind |-> "failed to decode image"]]
    ELSE IF DirOf(outputPath) # <<".">> /\ io = "mkdirError"
    THEN [fs |-> f, err |-> [kind |-> "failed to create directory"]]
    ELSE IF DirOf(outputPath) \in den \/ io = "openError"
    THEN [fs |-> f, err |-> [kind |-> "failed to create output file"]]
    ELSE IF io = "writeError"
    THEN [fs |-> WithFile(f, outputPath, PartialFile),
          err |-> [kind |-> "failed to encode PNG"]]
    ELSE [fs |-> WithFile(f, outputPath,
                          [bytes |-> imageData.id, size |-> size, meta |-> <<>>]),
          err |-> NoErr]

\* LoadImageAsBase64: [data, err]; the encoding of no bytes is the empty string.
LoadImageAsBase64(f, den, path) ==
    IF Stat(f, den, path) # "ok"
    THEN [data |-> "", err |-> [kind |-> "failed to read image"]]
    ELSE [data |-> IF f[path].bytes = "" THEN "" ELSE "base64:" \o f[path].bytes,
          err |-> NoErr]

\* metadata.AddPromptToPNG: the prompt is embedded in the file, or the file is
\* left as it is and the failure is only warned about.
AddPromptToPNG(f, path, prompt, ok) ==
    IF ok /\ path \in DOMAIN f
    THEN [f EXCEPT ![path] = [@ EXCEPT !.meta = <<prompt>>]]
    ELSE f

\* ImageGenConfig.ApplyToPrompt: the theme of the configuration follows the prompt.
ApplyToPrompt(config, prompt) == prompt \o config.theme

(***************************************************************************)
(* cmd/generate.go: runGenerate.  Its flags are [count, output, style,     *)
(* aspectRatio, resolution, frugal, slide, configPath, storePrompt]; found *)
(* is what gemini.FindConfig returns, [err, config].                       *)
(***************************************************************************)
StyleSep == <<",", " ", "s", "t", "y", "l", "e", ":", " ">>

\* A check of the resolution that lets every resolution pass.
FrugalResolutionUnsupportedNever(frugal, resolution) == FALSE

\* The check runGenerate and runEdit make of the resolution in frugal mode.
FrugalResolutionUnsupported(frugal, resolution) ==
    frugal /\ resolution # "" /\ resolution # "1K"

\* runGenerate up to its loop: [err, client, fullPrompt, aspectRatio, resolution].
GenerateStart(e, prompt, fl, found) ==
    LET useConfig == fl.slide \/ fl.configPath # ""
        config == IF useConfig THEN found.config ELSE <<>>
        ar1 == IF fl.slide /\ fl.aspectRatio = "" THEN "16:9" ELSE fl.aspectRatio
        res1 == IF fl.slide /\ fl.resolution = "" THEN "4K" ELSE fl.resolution
        ar2 == IF config # <<>> /\ ar1 = "" /\ config[1].aspectRatio # ""
               THEN config[1].aspectRatio ELSE ar1
        res2 == IF config # <<>> /\ res1 = "" /\ config[1].resolution # ""
                THEN config[1].resolution ELSE res1
        fullPrompt0 == IF fl.style # <<>> THEN prompt \o StyleSep \o fl.style ELSE prompt
        fullPrompt == IF config # <<>> THEN ApplyToPrompt(config[1], fullPrompt0)
                      ELSE fullPrompt0
        nc == IF fl.frugal THEN NewFrugalClient(e) ELSE NewClient(e)
        fail(err) == [err |-> err, client |-> <<>>, fullPrompt |-> fullPrompt,
                      aspectRatio |-> ar2, resolution |-> res2]
    IN  IF useConfig /\ found.err THEN fail([kind |-> "failed to load config"])
        ELSE IF ar2 # "" /\ ValidateAspectRatio(ar2) # NoErr THEN fail(ValidateAspectRatio(ar2))
        ELSE IF fl.frugal /\ fl.slide
        THEN fail([kind |-> "--frugal mode is incompatible with --slide"])
        ELSE IF FrugalResolutionUnsupported(fl.frugal, res2)
        THEN fail([kind |-> "--frugal mode only supports 1K resolution", resolution |-> res2])
        ELSE IF nc.err # NoErr
        THEN fail([kind |-> "failed to create Gemini client", cause |-> nc.err])
        ELSE [err |-> NoErr, client |-> nc.client, fullPrompt |-> fullPrompt,
              aspectRatio |-> ar2, resolution |-> res2]

\* One round of a command's loop: what it leaves behind.
Round(f, saved, requests, ok, hung) ==
    [fs |-> f, saved |-> saved, requests |-> requests, ok |-> ok, hung |-> hung]

\* One round of the loop of runGenerate, for item i: the request, its response
\* resp, the file name, the free path and the write (io), then the metadata (metaOk).
GenerateRound(f, den, c, w, i, resp, io, metaOk) ==
    LET a == WithResolutionArgs(w.fullPrompt, w.resolution, w.aspectRatio)
        p == PrepareRequest(c, a.prompt, a.images, a.resolution, a.aspectRatio)
        r == ProcessResponse(resp)
        filename == GenerateFilename(w.prompt, <<>>, IF w.count > 1 THEN i ELSE 0)
        u == EnsureUniqueFilename(f, den, JoinPath(w.output, filename))
        sv == SaveImage(f, den, r.data, u.path, io)
    IN  IF p.err # NoErr THEN Round(f, <<>>, Len(p.req), FALSE, FALSE)
        ELSE IF r.err # NoErr THEN Round(f, <<>>, 1, FALSE, FALSE)
        ELSE IF ~u.returns THEN Round(f, <<>>, 1, FALSE, TRUE)
        ELSE IF sv.err # NoErr THEN Round(sv.fs, <<>>, 1, FALSE, FALSE)
        ELSE Round(IF w.storePrompt THEN AddPromptToPNG(sv.fs, u.path, w.fullPrompt, metaOk)
                   ELSE sv.fs,
                   <<u.path>>, 1, TRUE, FALSE)

(***************************************************************************)
(* cmd/generate.go: runIcon.  Its flags are [sizes, sizesOk, type, output, *)
(* input]: sizes is --sizes parsed and sizesOk is whether every entry of   *)
(* it is a number; input is <<>> when no input image is given.             *)
(***************************************************************************)
\* The prompt of runIcon, up to the description (fixed sentences follow it).
IconPrompt(type, description) ==
    <<"C", "r", "e", "a", "t", "e", " ", "a", " ", "c", "l", "e", "a", "n", ",", " ", "p", "r", "o", "f", "e", "s", "s", "i", "o", "n", "a", "l", " ">> \o type
        \o <<" ", "i", "c", "o", "n", ":", " ">> \o description \o <<".">>

\* The prefix of an icon's file name: icon_<size>x<size>.
IconPrefix(size) == <<"i", "c", "o", "n", "_">> \o Itoa(size) \o <<"x">> \o Itoa(size)

\* runIcon up to its loop: [err, client, requests, imageData].
IconStart(e, f, den, description, fl, resp) ==
    LET ld == LoadImageAsBase64(f, den, fl.input)
        nc == NewFrugalClient(e)
        a == WithImagesArgs(IconPrompt(fl.type, description),
                            IF fl.input # <<>> /\ ld.data # "" THEN <<ld.data>> ELSE <<>>,
                            "1:1")
        p == PrepareRequest(nc.client[1], a.prompt, a.images, a.resolution, a.aspectRatio)
        r == ProcessResponse(resp)
        fail(err, clients, requests) ==
            [err |-> err, client |-> <<>>, clients |-> clients, requests |-> requests,
             imageData |-> EmptyStr]
    IN  IF ~fl.sizesOk THEN fail([kind |-> "invalid size"], 0, 0)
        ELSE IF fl.input # <<>> /\ Stat(f, den, fl.input) = "notexist"
        THEN fail([kind |-> "input image not found"], 0, 0)
        ELSE IF fl.input # <<>> /\ ld.err # NoErr
        THEN fail([kind |-> "failed to load input image", cause |-> ld.err], 0, 0)
        ELSE IF nc.err # NoErr
        THEN fail([kind |-> "failed to create Gemini client", cause |-> nc.err], 0, 0)
        ELSE IF p.err # NoErr
        THEN fail([kind |-> "failed to generate icon", cause |-> p.err], 1, Len(p.req))
        ELSE IF r.err # NoErr
        THEN fail([kind |-> "failed to generate icon", cause |-> r.err], 1, 1)
        ELSE [err |-> NoErr, client |-> nc.client, clients |-> 1, requests |-> 1,
              imageData |-> r.data]

\* One round of the loop of runIcon, for the k-th size.
IconRound(f, den, w, k, io) ==
    LET size == w.sizes[k]
        filename == GenerateFilename(w.prompt, IconPrefix(size), 0)
        u == EnsureUniqueFilename(f, den, JoinPath(w.output, filename))
        sv == ResizeAndSaveImage(f, den, w.imageData, size, u.path, io)
    IN  IF ~u.returns THEN Round(f, <<>>, 0, FALSE, TRUE)
        ELSE IF sv.err # NoErr THEN Round(sv.fs, <<>>, 0, FALSE, FALSE)
        ELSE Round(sv.fs, <<u.path>>, 0, TRUE, FALSE)

(***************************************************************************)
(* cmd/edit.go: runEdit.  Its flags are [output, inputs, aspectRatio,      *)
(* resolution, frugal, force, storePrompt]; output is <<>> when not given. *)
(***************************************************************************)
\* The most images (base and additional) runEdit takes.
MaxEditImages == 14

EditedSuffix == <<"-", "e", "d", "i", "t", "e", "d">>

\* The output path of runEdit.
EditOutputPath(baseImagePath, output) ==
    IF output # <<>> THEN output
    ELSE JoinPath(DirOf(baseImagePath),
                  TrimSuffix(BaseOf(baseImagePath), Ext(baseImagePath))
                      \o EditedSuffix \o Ext(baseImagePath))

\* The check of runEdit that its output does not exist: it refuses to go on.
OutputExists(f, den, fl, outputPath) == ~fl.force /\ Stat(f, den, outputPath) = "ok"

\* The images runEdit sends: the base image, then the inputs in their order.
RECURSIVE LoadAll(_, _, _)
LoadAll(f, den, paths) ==
    IF paths = <<>> THEN <<>>
    ELSE <<LoadImageAsBase64(f, den, Head(paths))>> \o LoadAll(f, den, Tail(paths))

\* The images loaded when the loop over the paths ends: all of them, or those
\* before the first that fails to load.
LoadedBefore(loads) ==
    Cardinality({k \in 1..Len(loads) : \A j \in 1..k : loads[j].err = NoErr})

\* The inline image parts of a request.
InlineParts(req) ==
    Cardinality({k \in 1..Len(req.body.contents[1].parts) :
                    req.body.contents[1].parts[k].inlineData # <<>>})

\* A count check that lets one image more pass.
TooManyImagesOffByOne(totalImages) == totalImages > MaxEditImages + 1

\* The check of the total number of images, base and additional.
TooManyImages(totalImages) == totalImages > MaxEditImages

\* runEdit: [fs, err, clients, requests, saved, loaded, parts].
EditRun(e, f, den, baseImagePath, instruction, fl, resp, io, metaOk) ==
    LET totalImages == 1 + Len(fl.inputs)
        outputPath == EditOutputPath(baseImagePath, fl.output)
        loads == LoadAll(f, den, <<baseImagePath>> \o fl.inputs)
        allImagesBase64 == [k \in 1..Len(loads) |-> loads[k].data]
        nc == IF fl.frugal THEN NewFrugalClient(e) ELSE NewClient(e)
        a == IF fl.resolution # "" \/ fl.aspectRatio # ""
             THEN FullOptionsArgs(instruction, allImagesBase64, fl.resolution, fl.aspectRatio)
             ELSE WithImagesArgs(instruction, allImagesBase64, "")
        p == PrepareRequest(nc.client[1], a.prompt, a.images, a.resolution, a.aspectRatio)
        r == ProcessResponse(resp)
        sv == SaveImage(f, den, r.data, outputPath, io)
        out(g, err, clients, requests, saved, loaded) ==
            [fs |-> g, err |-> err, clients |-> clients, requests |-> requests,
             saved |-> saved, loaded |-> loaded,
             parts |-> IF requests = 0 THEN 0 ELSE InlineParts(p.req[1])]
    IN  IF Stat(f, den, baseImagePath) = "notexist"
        THEN out(f, [kind |-> "base image not found"], 0, 0, <<>>, 0)
        ELSE IF \E k \in 1..Len(fl.inputs) : Stat(f, den, fl.inputs[k]) = "notexist"
        THEN out(f, [kind |-> "input image not found"], 0, 0, <<>>, 0)
        ELSE IF TooManyImages(totalImages)
        THEN out(f, [kind |-> "too many input images", total |-> totalImages], 0, 0, <<>>, 0)
        ELSE IF OutputExists(f, den, fl, outputPath)
        THEN out(f, [kind |-> "output file already exists"], 0, 0, <<>>, 0)
        ELSE IF fl.aspectRatio # "" /\ ValidateAspectRatio(fl.aspectRatio) # NoErr
        THEN out(f, ValidateAspectRatio(fl.aspectRatio), 0, 0, <<>>, 0)
        ELSE IF FrugalResolutionUnsupported(fl.frugal, fl.resolution)
        THEN out(f, [kind |-> "--frugal mode only supports 1K resolution",
                     resolution |-> fl.resolution], 0, 0, <<>>, 0)
        ELSE IF loads[1].err # NoErr
        THEN out(f, [kind |-> "failed to load base image"], 0, 0, <<>>, 0)
        ELSE IF \E k \in 2..Len(loads) : loads[k].err # NoErr
        THEN out(f, [kind |-> "failed to load input image"], 0, 0, <<>>, LoadedBefore(loads))
        ELSE IF nc.err # NoErr
        THEN out(f, [kind |-> "failed to create Gemini client", cause |-> nc.err], 0, 0, <<>>, Len(loads))
        ELSE IF p.err # NoErr
        THEN out(f, [kind |-> "failed to edit image", cause |-> p.err], 1, Len(p.req), <<>>, Len(loads))
        ELSE IF r.err # NoErr
        THEN out(f, [kind |-> "failed to edit image", cause |-> r.err], 1, 1, <<>>, Len(loads))
        ELSE IF sv.err # NoErr
        THEN out(sv.fs, [kind |-> "failed to save edited image", cause |-> sv.err], 1, 1, <<>>, Len(loads))
        ELSE out(IF fl.storePrompt THEN AddPromptToPNG(sv.fs, outputPath, instruction, metaOk)
                 ELSE sv.fs,
                 NoErr, 1, 1, <<outputPath>>, Len(loads))

(***************************************************************************)
(* The commands as steps.  An invocation is a process of its own: it       *)
(* starts with no client and the next one starts when it has ended.        *)
(***************************************************************************)
\* The loop data of an invocation that is not in its loop.
NoWork == [prompt |-> <<>>]

Invocation(name, phase, err, fl, found, w, total, clients, requests, saved) ==
    [name |-> name, phase |-> phase, err |-> err, flags |-> fl, found |-> found, w |-> w,
     i |-> 1, total |-> total, successCount |-> 0, clients |-> clients,
     requests |-> requests, saved |-> saved, loaded |-> 0, parts |-> 0]

\* The next invocation starts when the last one has ended.
CanStart(inp) == cmd.phase = "done" /\ inflight = <<>> /\ runs < inp.maxRuns

\* runGenerate, to the first round of its loop.
DoGenerateStart(inp) ==
    /\ CanStart(inp)
    /\ \E prompt \in inp.prompts, fl \in inp.generateFlags, found \in inp.founds :
          LET st == GenerateStart(env, prompt, fl, found) IN
          /\ cmd' = Invocation("generate", IF st.err # NoErr THEN "done" ELSE "loop", st.err,
                               fl, found,
                               IF st.err # NoErr THEN NoWork
                               ELSE [prompt |-> prompt, fullPrompt |-> st.fullPrompt,
                                     count |-> fl.count, output |-> fl.output,
                                     aspectRatio |-> st.aspectRatio,
                                     resolution |-> st.resolution,
                                     storePrompt |-> fl.storePrompt],
                               fl.count, Len(st.client), 0, <<>>)
          /\ client' = st.client
    /\ runs' = runs + 1
    /\ UNCHANGED <<env, inflight, last, fs, denied>>

\* The state of the invocation after a round of its loop.
AfterRound(rd) ==
    [cmd EXCEPT !.phase = IF rd.hung THEN "hung" ELSE "loop",
                !.i = IF rd.hung THEN @ ELSE @ + 1,
                !.successCount = IF rd.ok THEN @ + 1 ELSE @,
                !.requests = @ + rd.requests,
                !.saved = @ \o rd.saved]

\* One round of the loop of runGenerate.
DoGenerateRound(inp) ==
    /\ cmd.name = "generate" /\ cmd.phase = "loop" /\ cmd.i <= cmd.total
    /\ \E o \in inp.roundOutcomes :
          LET rd == GenerateRound(fs, denied, client[1], cmd.w, cmd.i, o.resp, o.io,
                                  o.metaOk) IN
          /\ fs' = rd.fs
          /\ cmd' = AfterRound(rd)
    /\ UNCHANGED <<env, client, inflight, last, denied, runs>>

\* The end of a loop: the summary is printed and the command returns nil.
DoFinish ==
    /\ cmd.phase = "loop" /\ cmd.i > cmd.total
    /\ cmd' = [cmd EXCEPT !.phase = "done", !.w = NoWork]
    /\ UNCHANGED <<env, client, inflight, last, fs, denied, runs>>

\* runIcon, to the first round of its loop.
DoIconStart(inp) ==
    /\ CanStart(inp)
    /\ \E description \in inp.descriptions, fl \in inp.iconFlags, resp \in inp.resps :
          LET st == IconStart(env, fs, denied, description, fl, resp) IN
          /\ cmd' = Invocation("icon", IF st.err # NoErr THEN "done" ELSE "loop", st.err,
                               fl, <<>>,
                               IF st.err # NoErr THEN NoWork
                               ELSE [prompt |-> description, sizes |-> fl.sizes,
                                     output |-> fl.output, imageData |-> st.imageData],
                               Len(fl.sizes), st.clients, st.requests, <<>>)
          /\ client' = st.client
    /\ runs' = runs + 1
    /\ UNCHANGED <<env, inflight, last, fs, denied>>

\* One round of the loop of runIcon.
DoIconRound(inp) ==
    /\ cmd.name = "icon" /\ cmd.phase = "loop" /\ cmd.i <= cmd.total
    /\ \E io \in inp.resizeIos :
          LET rd == IconRound(fs, denied, cmd.w, cmd.i, io) IN
          /\ fs' = rd.fs
          /\ cmd' = AfterRound(rd)
    /\ UNCHANGED <<env, client, inflight, last, denied, runs>>

\* runEdit.
DoEdit(inp) ==
    /\ CanStart(inp)
    /\ \E base \in inp.bases, instruction \in inp.instructions, fl \in inp.editFlags,
          o \in inp.outcomes :
          LET ed == EditRun(env, fs, denied, base, instruction, fl, o.resp, o.io, o.metaOk) IN
          /\ fs' = ed.fs
          /\ cmd' = [Invocation("edit", "done", ed.err, fl, <<>>, NoWork, 1, ed.clients,
                                ed.requests, ed.saved)
                        EXCEPT !.loaded = ed.loaded, !.parts = ed.parts]
          /\ client' = IF ed.clients > 0 THEN NewClientWithModel(env,
                            IF fl.frugal THEN ModelNameFrugal ELSE ModelName).client
                       ELSE <<>>
    /\ runs' = runs + 1
    /\ UNCHANGED <<env, inflight, last, denied>>

(***************************************************************************)
(* The inputs of the commands.                                             *)
(***************************************************************************)
FoxPrompt == <<"f", "o", "x">>

DotDir == <<".">>

OutDir == <<"o", "u", "t">>

PhotoPath == <<"p", "h", "o", "t", "o", ".", "p", "n", "g">>

FoxPath == <<"f", "o", "x", ".", "p", "n", "g">>

OldFile(name) == [bytes |-> name, size |-> 0, meta |-> <<>>]

\* File systems an invocation may find: the photo alone, and with earlier outputs.
FileSystems ==
    {[q \in {PhotoPath} |-> OldFile("photo")],
     [q \in {PhotoPath, FoxPath, <<"f", "o", "x", "_", "1", ".", "p", "n", "g">>, <<"p", "h", "o", "t", "o", "-", "e", "d", "i", "t", "e", "d", ".", "p", "n", "g">>,
             <<"i", "c", "o", "n", "_", "6", "4", "x", "6", "4", "_", "f", "o", "x", ".", "p", "n", "g">>} |-> OldFile("old")]}

\* An answer with an inline image that decodes.
OkResponse ==
    [transport |-> "ok", status |-> 200,
     body |-> OkBody(<<Candidate(<<[Text |-> EmptyStr,
                 InlineData |-> <<[MimeType |-> "image/png",
                                   Data |-> [id |-> "png1", len |-> 8, has |-> {}]]>>]>>)>>)]

\* What the remote end answers a command: an inline image, a text that is no
\* base64, a server error, no answer.
CmdResponses ==
    {OkResponse,
     [transport |-> "ok", status |-> 200,
      body |-> OkBody(<<Candidate(<<[Text |-> [id |-> "t1500 tab", len |-> 1500,
                                               has |-> {"\t"}],
                                     InlineData |-> <<>>]>>)>>)],
     [transport |-> "ok", status |-> 500, body |-> PlainBody(<<"d", "o", "w", "n">>)],
     [transport |-> "sendError", status |-> 0, body |-> PlainBody(<<>>)]}

\* What happens to a request and to the write that follows it: the write and
\* the metadata only vary where the command gets to them.
Outcomes(resps, ios) ==
    {o \in [resp : resps, io : ios, metaOk : BOOLEAN] :
        /\ o.io # "ok" => o.resp = OkResponse
        /\ ~o.metaOk => o.resp = OkResponse /\ o.io = "ok"}

NoConfig == [err |-> FALSE, config |-> <<>>]

\* What gemini.FindConfig returns: an error, no configuration, a configuration.
Founds ==
    {[err |-> TRUE, config |-> <<>>], NoConfig,
     [err |-> FALSE, config |-> <<[aspectRatio |-> "", resolution |-> "2K",
                                   theme |-> <<",", " ", "d", "a", "r", "k">>]>>],
     [err |-> FALSE, config |-> <<[aspectRatio |-> "16:9", resolution |-> "",
                                   theme |-> <<>>]>>]}

\* The inputs of SpecCmd: the flags that decide what is written, and every
\* outcome of the remote call and of the write.
CmdInputs ==
    [maxRuns |-> MaxRuns,
     prompts |-> {FoxPrompt},
     descriptions |-> {FoxPrompt},
     generateFlags |->
        [count : {0, 1, MaxCount}, output : {DotDir, OutDir}, style : {<<>>},
         aspectRatio : {""}, resolution : {""}, frugal : {FALSE}, slide : {FALSE},
         configPath : {""}, storePrompt : BOOLEAN],
     founds |-> {NoConfig},
     iconFlags |->
        [sizes : {<<64>>, <<64, 64>>}, sizesOk : {TRUE}, type : {<<"a", "p", "p">>},
         output : {DotDir, OutDir}, input : {<<>>, PhotoPath}],
     bases |-> {PhotoPath, FoxPath},
     instructions |-> {FoxPrompt},
     editFlags |->
        [output : {<<>>, FoxPath}, inputs : {<<>>, <<PhotoPath>>}, aspectRatio : {""},
         resolution : {""}, frugal : {FALSE}, force : BOOLEAN, storePrompt : BOOLEAN],
     resps |-> CmdResponses,
     roundOutcomes |-> Outcomes({r \in CmdResponses : r.status \in {200, 500}},
                                {"ok", "mkdirError", "writeError"}),
     outcomes |-> Outcomes(CmdResponses, {"ok", "mkdirError", "openError", "writeError"}),
     resizeIos |-> {"ok", "imageError", "mkdirError", "openError", "writeError"}]

\* n additional input images.
Inputs(n) == [k \in 1..n |-> PhotoPath]

\* The inputs of SpecFlags: every combination of the flags that are validated,
\* and few outcomes of the remote call and of the write.
FlagInputs ==
    [maxRuns |-> 1,
     prompts |-> {FoxPrompt},
     descriptions |-> {FoxPrompt},
     generateFlags |->
        [count : {1}, output : {DotDir}, style : {<<>>, <<"n", "e", "o", "n">>},
         aspectRatio : {"", "16:9", "16:10"}, resolution : {"", "1K", "2K", "4K"},
         frugal : BOOLEAN, slide : BOOLEAN, configPath : {"", "cfg.json"},
         storePrompt : {FALSE}],
     founds |-> Founds,
     iconFlags |->
        [sizes : {<<64>>}, sizesOk : BOOLEAN, type : {<<"a", "p", "p">>},
         output : {DotDir}, input : {<<>>, <<"n", "o">>}],
     bases |-> {PhotoPath, <<"n", "o">>},
     instructions |-> {FoxPrompt},
     editFlags |->
        [output : {<<>>}, inputs : {Inputs(0), Inputs(MaxEditImages - 1), Inputs(MaxEditImages)},
         aspectRatio : {"", "16:9", "16:10"}, resolution : {"", "1K", "2K", "4K"},
         frugal : BOOLEAN, force : {FALSE}, storePrompt : {FALSE}],
     resps |-> {r \in CmdResponses : r.status \in {200, 500}},
     roundOutcomes |-> Outcomes({r \in CmdResponses : r.status \in {200, 500}}, {"ok"}),
     outcomes |-> Outcomes({r \in CmdResponses : r.status \in {200, 500}}, {"ok"}),
     resizeIos |-> {"ok"}]

CmdInit(E, FS, DEN) ==
    /\ env \in E
    /\ client = <<>>
    /\ inflight = <<>>
    /\ last = [op |-> "none", err |-> NoErr]
    /\ fs \in FS
    /\ denied \in DEN
    /\ cmd = NoCmd
    /\ runs = 0

CmdNext(inp) ==
    \/ DoGenerateStart(inp)
    \/ DoGenerateRound(inp)
    \/ DoFinish
    \/ DoIconStart(inp)
    \/ DoIconRound(inp)
    \/ DoEdit(inp)

(***************************************************************************)
(* SpecCmd: the commands and the files they write.                         *)
(***************************************************************************)
InitCmd == CmdInit({e \in EnvsSmall : e # <<>>}, FileSystems, {{}, {OutDir}})

NextCmd == CmdNext(CmdInputs)

SpecCmd == InitCmd /\ [][NextCmd]_vars

(***************************************************************************)
(* SpecFlags: one invocation and the flags it validates.                   *)
(***************************************************************************)
InitFlags == CmdInit(EnvsSmall, {[q \in {PhotoPath} |-> OldFile("photo")]}, {{}})

NextFlags == CmdNext(FlagInputs)

SpecFlags == InitFlags /\ [][NextFlags]_vars

(***************************************************************************)
(* SpecNames: cleanPrompt and GenerateFilename on prompts of every shape.  *)
(* last holds the call made last: its arguments and its result.           *)
(***************************************************************************)
\* The characters of the prompts: a letter of each case, a digit, whitespace, the
\* hyphen, the underscore and a character that is removed.
NameAlphabet == {"a", "Z", "7", " ", "\t", "-", "_", "!"}

\* The words of 1 to n characters.
Words(n) == UNION {[1..k -> NameAlphabet] : k \in 1..n}

\* w, k times over.
RECURSIVE Repeat(_, _)
Repeat(w, k) == IF k = 0 THEN <<>> ELSE w \o Repeat(w, k - 1)

\* How often a word is repeated: once, and often enough to pass maxLen.
Reps == {1, 26, 51}

NamePrompts ==
    {<<>>, <<"a", "-", "b", "-", "c">>, <<"C", "y", "b", "e", "r", "p", "u", "n", "k", " ", "C", "i", "t", "y", "!", "!">>,
     Repeat(<<"a", "b", " ", "c">>, 50)}
        \cup {Repeat(w, k) : w \in Words(MaxWordLen), k \in Reps}

NamePrefixes == {<<>>, IconPrefix(64)}

NameCounts == {0, 1, 12}

InitNames ==
    /\ env = <<>>
    /\ client = <<>>
    /\ inflight = <<>>
    /\ last \in {[op |-> "input", prompt |-> p] : p \in NamePrompts}
    /\ fs = <<>>
    /\ denied = {}
    /\ cmd = NoCmd
    /\ runs = 0

\* cleanPrompt, on the prompt or on what cleaning it gave.
DoCleanPrompt ==
    /\ last.op \in {"input", "cleanPrompt"}
    /\ runs < MaxApply
    /\ LET prompt == IF last.op = "input" THEN last.prompt ELSE last.result IN
          last' = [op |-> "cleanPrompt", prompt |-> prompt, result |-> cleanPrompt(prompt)]
    /\ runs' = runs + 1
    /\ UNCHANGED <<env, client, inflight, fs, denied, cmd>>

\* GenerateFilename on the prompt.
DoGenerateFilename(prefixes, counts) ==
    /\ last.op = "input"
    /\ \E prefix \in prefixes, count \in counts :
          last' = [op |-> "GenerateFilename", prompt |-> last.prompt, prefix |-> prefix,
                   count |-> count,
                   result |-> GenerateFilename(last.prompt, prefix, count)]
    /\ UNCHANGED <<env, client, inflight, fs, denied, cmd, runs>>

NextNames ==
    \/ DoCleanPrompt
    \/ DoGenerateFilename(NamePrefixes, NameCounts)

SpecNames == InitNames /\ [][NextNames]_vars

(***************************************************************************)
(* SpecFiles: EnsureUniqueFilename and the write that follows it, over     *)
(* every set of files that are in its way.  last holds the call made last  *)
(* and the paths written so far.                                           *)
(***************************************************************************)
\* The names a file may have before the first call.
ProbeNames ==
    {<<"f", "o", "x", ".", "p", "n", "g">>,
     <<"f", "o", "x", "_", "1", ".", "p", "n", "g">>,
     <<"f", "o", "x", "_", "2", ".", "p", "n", "g">>,
     <<"f", "o", "x", "_", "3", ".", "p", "n", "g">>,
     <<"f", "o", "x">>,
     <<"f", "o", "x", "_", "1">>,
     <<"o", "u", "t", "/", "f", "o", "x", ".", "p", "n", "g">>,
     <<"o", "u", "t", "/", "f", "o", "x", "_", "1", ".", "p", "n", "g">>}

\* The paths EnsureUniqueFilename is called with.
ProbePaths == {FoxPath, <<"f", "o", "x">>, <<"o", "u", "t", "/", "f", "o", "x", ".", "p", "n", "g">>}

InitFiles ==
    /\ env = <<>>
    /\ client = <<>>
    /\ inflight = <<>>
    /\ last = [op |-> "none", err |-> NoErr]
    /\ fs \in {[q \in S |-> OldFile("old")] : S \in SUBSET ProbeNames}
    /\ denied \in {{}, {OutDir}}
    /\ cmd = NoCmd
    /\ runs = 0

\* EnsureUniqueFilename on a path; when its loop never ends, nothing follows.
DoEnsureUniqueFilename(paths) ==
    /\ last.op \in {"none", "WriteFile"}
    /\ runs < MaxWrites
    /\ \E path \in paths :
          LET u == EnsureUniqueFilename(fs, denied, path) IN
          last' = [op |-> "EnsureUniqueFilename", path |-> path, returns |-> u.returns,
                   result |-> u.path,
                   written |-> IF last.op = "none" THEN <<>> ELSE last.written]
    /\ UNCHANGED <<env, client, inflight, fs, denied, cmd, runs>>

\* os.WriteFile succeeds on the path that EnsureUniqueFilename returned.
DoWriteFile ==
    /\ last.op = "EnsureUniqueFilename" /\ last.returns
    /\ fs' = WithFile(fs, last.result, [bytes |-> "new", size |-> 0, meta |-> <<>>])
    /\ last' = [op |-> "WriteFile", path |-> last.path,
                written |-> Append(last.written, last.result)]
    /\ runs' = runs + 1
    /\ UNCHANGED <<env, client, inflight, denied, cmd>>

NextFiles ==
    \/ DoEnsureUniqueFilename(ProbePaths)
    \/ DoWriteFile

SpecFiles == InitFiles /\ [][NextFiles]_vars

(***************************************************************************)
(* SpecSave: SaveImage and ResizeAndSaveImage with every outcome of the    *)
(* decoding and of the operating system.  last holds the call made last    *)
(* and the files that were there before it.                                *)
(***************************************************************************)
\* Image data: base64 that decodes, a length that is no multiple of four, a
\* character outside the alphabet.
SaveDatas ==
    {[id |-> "png1", len |-> 8, has |-> {}],
     [id |-> "png7", len |-> 7, has |-> {}],
     [id |-> "png tab", len |-> 8, has |-> {"\t"}]}

SavePaths == {FoxPath, PhotoPath, <<"o", "u", "t", "/", "f", "o", "x", ".", "p", "n", "g">>}

SaveIos == {"ok", "mkdirError", "openError", "writeError"}

ResizeIos == {"ok", "imageError", "mkdirError", "openError", "writeError"}

IconSizes == {64}

InitSave == CmdInit({<<>>}, FileSystems, {{}, {OutDir}})

DoSaveImage(datas, paths, ios) ==
    /\ runs < MaxWrites
    /\ \E imageData \in datas, outputPath \in paths, io \in ios :
          LET sv == SaveImage(fs, denied, imageData, outputPath, io) IN
          /\ fs' = sv.fs
          /\ last' = [op |-> "SaveImage", path |-> outputPath, io |-> io, err |-> sv.err,
                      before |-> DOMAIN fs]
    /\ runs' = runs + 1
    /\ UNCHANGED <<env, client, inflight, denied, cmd>>

DoResizeAndSaveImage(datas, sizes, paths, ios) ==
    /\ runs < MaxWrites
    /\ \E imageData \in datas, size \in sizes, outputPath \in paths, io \in ios :
          LET sv == ResizeAndSaveImage(fs, denied, imageData, size, outputPath, io) IN
          /\ fs' = sv.fs
          /\ last' = [op |-> "ResizeAndSaveImage", path |-> outputPath, io |-> io,
                      err |-> sv.err, before |-> DOMAIN fs]
    /\ runs' = runs + 1
    /\ UNCHANGED <<env, client, inflight, denied, cmd>>

NextSave ==
    \/ DoSaveImage(SaveDatas, SavePaths, SaveIos)
    \/ DoResizeAndSaveImage(SaveDatas, IconSizes, SavePaths, ResizeIos)

SpecSave == InitSave /\ [][NextSave]_vars

(***************************************************************************)
(* SpecRace: invocations of generate (count 1) or of icon (one size) that  *)
(* run at the same time as processes of their own, with the same prompt    *)
(* and output directory.  A step is one system call or the remote call of  *)
(* one process: the probes of EnsureUniqueFilename are single calls of     *)
(* os.Stat, and nothing keeps another process from running between them   *)
(* and the write.  cmd.procs holds each process's position.                *)
(***************************************************************************)
Procs == 1..MaxProcs

RaceCommands == {"generate", "icon"}

RaceIos == {"ok", "writeError"}

\* The files that may be there when the processes start.
RaceFileSystems ==
    {[q \in S |-> OldFile("old")] :
        S \in SUBSET {FoxPath, <<"f", "o", "x", "_", "1", ".", "p", "n", "g">>,
                      <<"i", "c", "o", "n", "_", "6", "4", "x", "6", "4", "_", "f", "o", "x", ".", "p", "n", "g">>}}

\* The image that the remote end returns to process p.
RaceData(p) == [id |-> "png of process " \o ToString(p), len |-> 8, has |-> {}]

\* The path a process wants: filepath.Join(output, GenerateFilename(...)).
RaceTarget(command) ==
    JoinPath(DotDir, GenerateFilename(FoxPrompt,
                                      IF command = "icon" THEN IconPrefix(64) ELSE <<>>, 0))

InitRace ==
    /\ env = <<>>
    /\ client = <<>>
    /\ inflight = <<>>
    /\ last = [op |-> "none", err |-> NoErr]
    /\ fs \in RaceFileSystems
    /\ denied = {}
    /\ \E command \in RaceCommands :
          cmd = [name |-> command, phase |-> "race", err |-> NoErr,
                 procs |-> [p \in Procs |-> [pc |-> "call", counter |-> 0, path |-> <<>>,
                                             saved |-> <<>>]]]
    /\ runs = 0

\* The remote call of a process returns: an image, or an error that ends the
\* single item of generate and the whole of icon.
DoRaceCall(procs) ==
    /\ cmd.phase = "race"
    /\ \E p \in procs, ok \in BOOLEAN :
          /\ cmd.procs[p].pc = "call"
          /\ cmd' = [cmd EXCEPT !.procs[p].pc = IF ok THEN "probe" ELSE "done"]
    /\ UNCHANGED <<env, client, inflight, last, fs, denied, runs>>

\* One os.Stat of EnsureUniqueFilename: of the path itself first, then of
\* base_counter.ext; the function returns the path probed when it is not there.
DoRaceProbe(procs) ==
    /\ cmd.phase = "race"
    /\ \E p \in procs :
          LET target == RaceTarget(cmd.name)
              counter == cmd.procs[p].counter
              newPath == IF counter = 0 THEN target
                         ELSE TrimSuffix(target, Ext(target)) \o <<"_">> \o Itoa(counter)
                                  \o Ext(target)
          IN  /\ cmd.procs[p].pc = "probe"
              /\ cmd' = IF Stat(fs, denied, newPath) = "notexist"
                        THEN [cmd EXCEPT !.procs[p].pc = "save", !.procs[p].path = newPath]
                        ELSE [cmd EXCEPT !.procs[p].counter = @ + 1]
    /\ UNCHANGED <<env, client, inflight, last, fs, denied, runs>>

\* SaveImage (generate) or ResizeAndSaveImage (icon) on the path resolved.
DoRaceSave(procs, ios) ==
    /\ cmd.phase = "race"
    /\ \E p \in procs, io \in ios :
          LET path == cmd.procs[p].path
              sv == IF cmd.name = "icon"
                    THEN ResizeAndSaveImage(fs, denied, RaceData(p), 64, path, io)
                    ELSE SaveImage(fs, denied, RaceData(p), path, io)
          IN  /\ cmd.procs[p].pc = "save"
              /\ fs' = sv.fs
              /\ cmd' = [cmd EXCEPT !.procs[p].pc = "done",
                                    !.procs[p].saved = IF sv.err = NoErr THEN <<path>>
                                                       ELSE <<>>]
    /\ UNCHANGED <<env, client, inflight, last, denied, runs>>

NextRace ==
    \/ DoRaceCall(Procs)
    \/ DoRaceProbe(Procs)
    \/ DoRaceSave(Procs, RaceIos)

SpecRace == InitRace /\ [][NextRace]_vars

(***************************************************************************)
(* Properties.                                                            *)
(***************************************************************************)
\* The invocation in progress may not overwrite: generate, icon, edit without --force.
NoOverwriteCommand(c) ==
    \/ c.name \in {"generate", "icon"}
    \/ c.name = "edit" /\ ~c.flags.force

RequestedResolution ==
    IF cmd.flags.resolution # "" THEN cmd.flags.resolution
    ELSE IF cmd.name = "generate" /\ (cmd.flags.slide \/ cmd.flags.configPath # "")
            /\ cmd.found.config # <<>>
    THEN cmd.found.config[1].resolution
    ELSE ""

\* C3: a generate or an edit with --frugal whose resolution, from the flag or from
\* the configuration, is neither unset nor "1K" ends with an error, having
\* constructed no client and sent no request.
C3_FrugalResolutionRejected ==
    (cmd.name \in {"generate", "edit"} /\ cmd.flags.frugal
        /\ RequestedResolution \notin {"", "1K"})
    => /\ cmd.phase = "done"
       /\ cmd.err # NoErr
       /\ cmd.clients = 0 /\ cmd.requests = 0
       /\ client = <<>> /\ inflight = <<>>

\* A generate with --frugal and a credential that took "2K" from its configuration.
C3_Witness ==
    /\ cmd.name = "generate" /\ cmd.flags.frugal /\ ~cmd.flags.slide
    /\ cmd.flags.resolution = "" /\ RequestedResolution = "2K"
    /\ env # <<>>
    /\ cmd.err.kind = "--frugal mode only supports 1K resolution"

CallOps ==
    {"GenerateContent", "GenerateContentWithImage", "GenerateContentWithImages",
     "GenerateContentWithResolution", "GenerateContentWithOptions",
     "GenerateContentWithFullOptions"}

\* A call has just sent its request and waits for the response.
Waiting == inflight # <<>> /\ last.op \in CallOps /\ last.phase = "entered"

\* A call has returned after its response arrived.
Returned == last.op \in CallOps /\ last.phase = "returned"

\* The JSON payload has no imageSize field anywhere.
NoImageSizeField(body) ==
    \A i \in 1..Len(body.generationConfig) :
        \A j \in 1..Len(body.generationConfig[i].imageConfig) :
            body.generationConfig[i].imageConfig[j].imageSize = <<>>

\* The JSON payload has an imageConfig with imageSize v.
ImageSizeFieldIs(body, v) ==
    /\ body.generationConfig # <<>>
    /\ body.generationConfig[1].imageConfig # <<>>
    /\ body.generationConfig[1].imageConfig[1].imageSize = <<v>>

\* C2: every payload a client of the frugal model sends has no imageSize field,
\* whatever the resolution, the aspect ratio and the images given.
C2_FrugalNeverSendsImageSize ==
    (Waiting /\ client[1].model = "gemini-2.5-flash-image")
        => NoImageSizeField(inflight[1].body)

C2_Witness ==
    /\ Waiting
    /\ client[1].model = "gemini-2.5-flash-image"
    /\ last.args.resolution = "4K"
    /\ last.args.images # <<>>
    /\ last.args.aspectRatio = "21:9"

\* C4: every payload a client of the standard model sends has an imageSize field:
\* "4K" when the resolution is unset, the resolution itself otherwise.
C4_StandardImageSize ==
    (Waiting /\ client[1].model = "gemini-3-pro-image-preview")
        => ImageSizeFieldIs(inflight[1].body,
                            IF last.args.resolution = "" THEN "4K" ELSE last.args.resolution)

C4_Witness ==
    /\ Waiting
    /\ client[1].model = "gemini-3-pro-image-preview"
    /\ last.args.resolution = ""
    /\ ImageSizeFieldIs(inflight[1].body, "4K")

\* The ten supported ratios, as the documentation lists them.
TenRatios == {"1:1", "16:9", "9:16", "4:3", "3:4", "3:2", "2:3", "21:9", "5:4", "4:5"}

\* C5: ValidateAspectRatio succeeds exactly for the ten supported ratios and the
\* empty value; its error carries the input and the full supported list.
C5_ValidateAspectRatio ==
    last.op = "ValidateAspectRatio" =>
        /\ (last.err = NoErr) <=> (last.aspectRatio \in TenRatios \cup {""})
        /\ last.err # NoErr =>
              /\ last.err.value = last.aspectRatio
              /\ Len(last.err.supported) = 10
              /\ Range(last.err.supported) = TenRatios

C5_Witness ==
    /\ last.op = "ValidateAspectRatio"
    /\ last.aspectRatio = "16:10"
    /\ last.err # NoErr
    /\ last.err.value = "16:10"

\* C6: a call whose aspect ratio is set and unsupported returns the validation
\* error and sends no HTTP request.
C6_ValidationBeforeDispatch ==
    (last.op \in CallOps /\ last.phase = "entered"
        /\ last.args.aspectRatio \notin TenRatios \cup {""})
        => /\ last.err.kind = "unsupported aspect ratio"
           /\ last.err.value = last.args.aspectRatio
           /\ inflight = <<>>

C6_Witness ==
    /\ last.op = "GenerateContentWithFullOptions"
    /\ last.phase = "entered"
    /\ last.args.aspectRatio = "16:10"
    /\ last.err.kind = "unsupported aspect ratio"
    /\ inflight = <<>>

\* The credential variables in their documented order.
KeyOrder ==
    <<"NANOBANANA_GEMINI_API_KEY", "NANOBANANA_GOOGLE_API_KEY", "GEMINI_API_KEY",
      "GOOGLE_API_KEY">>

KeyValue(i) == IF KeyOrder[i] \in DOMAIN env THEN env[KeyOrder[i]] ELSE ""

\* C7: a constructed client holds the value of the first non-empty credential
\* variable in the fixed order; with all four empty or unset the construction
\* fails, there is no client and no request is ever sent.
C7_CredentialPriority ==
    /\ client # <<>> =>
          \E i \in 1..4 : /\ KeyValue(i) # ""
                          /\ \A j \in 1..(i - 1) : KeyValue(j) = ""
                          /\ client[1].apiKey = KeyValue(i)
    /\ (last.op \in {"NewClient", "NewFrugalClient"}) =>
          /\ (\A i \in 1..4 : KeyValue(i) = "") =>
                (client = <<>> /\ last.err.kind = "API key not found")
          /\ (\E i \in 1..4 : KeyValue(i) # "") => (client # <<>> /\ last.err = NoErr)
    /\ client = <<>> => inflight = <<>>

C7_Witness ==
    /\ last.op = "NewClient"
    /\ "NANOBANANA_GEMINI_API_KEY" \notin DOMAIN env
    /\ KeyValue(2) = "" /\ "NANOBANANA_GOOGLE_API_KEY" \in DOMAIN env
    /\ KeyValue(3) = "key-3"
    /\ KeyValue(4) = "key-4"
    /\ client # <<>>
    /\ client[1].apiKey = "key-3"

\* The call returned on a 200 response that parsed and holds no error object.
ReturnedOk ==
    /\ Returned
    /\ last.resp.transport = "ok"
    /\ last.resp.status = 200
    /\ last.resp.body.parsed # <<>>
    /\ last.resp.body.parsed[1].Error = <<>>

RespCandidates == last.resp.body.parsed[1].Candidates

\* The parts of the first candidate of the response.
FirstParts == RespCandidates[1].Content.Parts

\* The part carries non-empty inline data.
CarriesInline(part) == part.InlineData # <<>> /\ part.InlineData[1].Data.len > 0

\* d is the text of a part of the first candidate (and not its inline data).
IsReturnedText(d) ==
    /\ d.len > 0
    /\ \E i \in 1..Len(FirstParts) : FirstParts[i].Text = d
    /\ \A i \in 1..Len(FirstParts) :
          FirstParts[i].InlineData # <<>> => FirstParts[i].InlineData[1].Data # d

\* C8: whenever a part of the first candidate carries non-empty inline data, the
\* result is the data of the first such part, whatever texts precede it; a text is
\* returned only when no part carries inline data.
C8_InlineDataFirst ==
    (ReturnedOk /\ RespCandidates # <<>>
        /\ \E i \in 1..Len(FirstParts) : CarriesInline(FirstParts[i]))
        => LET first == CHOOSE i \in 1..Len(FirstParts) :
                            /\ CarriesInline(FirstParts[i])
                            /\ \A j \in 1..(i - 1) : ~CarriesInline(FirstParts[j])
           IN  /\ last.err = NoErr
               /\ last.data = FirstParts[first].InlineData[1].Data
               /\ ~IsReturnedText(last.data)

\* The response has one candidate with one part, a text without inline data.
OnlyTextPart ==
    /\ ReturnedOk
    /\ Len(RespCandidates) = 1
    /\ Len(FirstParts) = 1
    /\ FirstParts[1].InlineData = <<>>

\* C9 as stated: a text is returned exactly when its length exceeds 1000 and it
\* contains no whitespace of any kind.
C9_NoWhitespaceOfAnyKind ==
    /\ (ReturnedOk /\ RespCandidates # <<>> /\ last.err = NoErr /\ IsReturnedText(last.data))
          => (last.data.len > 1000 /\ last.data.has = {})
    /\ OnlyTextPart =>
          ((last.err = NoErr /\ last.data = FirstParts[1].Text)
              <=> (FirstParts[1].Text.len > 1000 /\ FirstParts[1].Text.has = {}))

\* C9, amended: a text is returned only when its length in bytes exceeds 1000 and
\* it contains neither a space nor a line feed (a tab or a carriage return does
\* not disqualify it); a text that is the only part is returned exactly then, so
\* a 1500-byte text without whitespace that is the only part is returned.
C9_NoSpaceNoNewline ==
    /\ (ReturnedOk /\ RespCandidates # <<>> /\ last.err = NoErr /\ IsReturnedText(last.data))
          => (last.data.len > 1000 /\ " " \notin last.data.has /\ "\n" \notin last.data.has)
    /\ OnlyTextPart =>
          ((last.err = NoErr /\ last.data = FirstParts[1].Text)
              <=> (/\ FirstParts[1].Text.len > 1000
                   /\ " " \notin FirstParts[1].Text.has
                   /\ "\n" \notin FirstParts[1].Text.has))

C9_Witness ==
    /\ OnlyTextPart
    /\ FirstParts[1].Text.len = 1500
    /\ FirstParts[1].Text.has = {}
    /\ last.err = NoErr
    /\ last.data = FirstParts[1].Text

\* The part qualifies under the inline-data rule or under the text rule.
Qualifies(part) ==
    \/ CarriesInline(part)
    \/ /\ part.Text.len > 1000
       /\ " " \notin part.Text.has
       /\ "\n" \notin part.Text.has

\* C10: a call that returns without error returns a non-empty payload; a 200
\* response without candidates, or whose first candidate has no qualifying part,
\* fails with "no image data found", whatever the other candidates hold.
C10_NoImageDataFound ==
    /\ (Returned /\ last.err = NoErr) => last.data.len > 0
    /\ (ReturnedOk /\ (RespCandidates = <<>>
                        \/ \A i \in 1..Len(FirstParts) : ~Qualifies(FirstParts[i])))
          => (last.err.kind = "no image data found in response" /\ last.data.len = 0)

C10_Witness ==
    /\ ReturnedOk
    /\ Len(RespCandidates) = 2
    /\ FirstParts = <<>>
    /\ CarriesInline(RespCandidates[2].Content.Parts[1])
    /\ last.err.kind = "no image data found in response"

\* The category of a remote error, by the message handleError or the embedded
\* error check gives it.
Category(err) ==
    CASE err.kind = "malformed request" -> "malformed-request"
      [] err.kind = "request rejected due to safety concerns" -> "safety-rejected"
      [] err.kind = "invalid API key" -> "invalid-credential"
      [] err.kind = "API quota exceeded" -> "quota-exceeded"
      [] err.kind = "authentication failed" -> "generic-auth-failure"
      [] err.kind = "service error" -> "service-error"
      [] OTHER -> "unclassified"

\* The call has returned on a response that came with a status other than 200.
ReturnedStatus(st) ==
    Returned /\ last.resp.transport = "ok" /\ last.resp.status = st

\* The call has returned on a 200 response that carries an error object.
ReturnedEmbedded ==
    /\ ReturnedStatus(200)
    /\ last.resp.body.parsed # <<>>
    /\ last.resp.body.parsed[1].Error # <<>>

EmbeddedError == last.resp.body.parsed[1].Error[1]

\* C11: the error returned for an error object in a 200 response is of the
\* category that a response with that status and message gets.
C11_EmbeddedErrorSameCategory ==
    ReturnedEmbedded
        => Category(last.err) = Category(handleError(EmbeddedError.Code, last.resp.body))

\* C12: a 400 response is safety-rejected when its message contains "safety" and
\* malformed-request otherwise, and of no other category.
C12_BadRequestCategories ==
    ReturnedStatus(400)
        => Category(last.err) =
              IF Contains(ErrorBodyStr(last.resp.body), SafetyWord) THEN "safety-rejected"
              ELSE "malformed-request"

\* A 400 response with "safety" in its message.
C12_Witness ==
    /\ ReturnedStatus(400)
    /\ Contains(ErrorBodyStr(last.resp.body), SafetyWord)
    /\ last.err.kind = "request rejected due to safety concerns"

HasQuota(m) == Contains(ToLower(m), QuotaWord)

HasInvalidKey(m) == Contains(ToLower(m), APIKeyNotValidWords)

\* C13 as stated: every 403 response whose message contains "quota" in any
\* letter case is quota-exceeded.
C13_QuotaAlways ==
    (ReturnedStatus(403) /\ HasQuota(ErrorBodyStr(last.resp.body)))
        => Category(last.err) = "quota-exceeded"

\* C13: a 403 response whose message contains "quota" in any letter case is
\* quota-exceeded unless it also contains "api key not valid" (in any letter
\* case), and is then invalid-credential.
C13_QuotaUnlessInvalidKey ==
    (ReturnedStatus(403) /\ HasQuota(ErrorBodyStr(last.resp.body)))
        => Category(last.err) =
              IF HasInvalidKey(ErrorBodyStr(last.resp.body)) THEN "invalid-credential"
              ELSE "quota-exceeded"

\* A 403 response whose message has "quota" in capitals.
C13_Witness ==
    /\ ReturnedStatus(403)
    /\ HasQuota(ErrorBodyStr(last.resp.body))
    /\ ~Contains(ErrorBodyStr(last.resp.body), QuotaWord)
    /\ last.err.kind = "API quota exceeded"

\* The call has returned an error made from a response the remote end sent.
ReturnedRemoteError ==
    /\ Returned /\ last.resp.transport = "ok"
    /\ last.resp.status # 200 \/ ReturnedEmbedded

\* C14 as stated: every remote error carries the status code and the message.
C14_CarriesStatusAndMessage ==
    ReturnedRemoteError
        => /\ DOMAIN last.err \cap {"status", "code"} # {}
           /\ "message" \in DOMAIN last.err

\* C14: an unclassified error carries the status and the message, an embedded
\* error the code and the message of the error object; malformed-request,
\* generic-auth-failure and service-error carry the message alone;
\* safety-rejected, invalid-credential and quota-exceeded carry neither.
C14_WhatErrorsCarry ==
    ReturnedRemoteError
        => LET e == last.err
               m == ErrorBodyStr(last.resp.body)
           IN  CASE e.kind = "HTTP" -> e = [kind |-> "HTTP", status |-> last.resp.status,
                                            message |-> m]
                 [] e.kind = "API error" ->
                        e = [kind |-> "API error", code |-> EmbeddedError.Code, message |-> m]
                 [] e.kind \in {"malformed request", "authentication failed", "service error"} ->
                        DOMAIN e = {"kind", "message"} /\ e.message = m
                 [] OTHER ->
                        /\ e.kind \in {"request rejected due to safety concerns",
                                        "invalid API key", "API quota exceeded"}
                        /\ DOMAIN e = {"kind"}

\* A safety rejection: it carries neither the status nor the message.
C14_Witness ==
    /\ ReturnedStatus(400)
    /\ last.err = [kind |-> "request rejected due to safety concerns"]

\* C17: cleaning what cleanPrompt returned returns it unchanged.
C17_CleanPromptIdempotent ==
    (last.op = "cleanPrompt" /\ runs >= 2) => last.result = last.prompt

\* The characters of a cleaned stem.
StemChars == Range(LowerChars) \cup Range(DigitChars) \cup {"-", "_"}

\* What GenerateFilename puts before and after the stem.
BeforeStem == IF last.prefix # <<>> THEN last.prefix \o <<"_">> ELSE <<>>

AfterStem == (IF last.count > 0 THEN <<"_">> \o Itoa(last.count) ELSE <<>>) \o PngExt

\* The stem of the file name made last.
Stem == SubSeq(last.result, Len(BeforeStem) + 1, Len(last.result) - Len(AfterStem))

\* C18: the file name is the prefix, a stem of at most 50 characters of a-z, 0-9,
\* hyphen and underscore, the counter and ".png".
C18_StemBoundedAndClean ==
    last.op = "GenerateFilename"
        => /\ last.result = BeforeStem \o Stem \o AfterStem
           /\ Len(Stem) <= 50
           /\ \A k \in 1..Len(Stem) : Stem[k] \in StemChars
           /\ SubSeq(last.result, Len(last.result) - 3, Len(last.result)) = PngExt

\* A prompt of 200 characters whose cleaned form is cut to 50, with prefix and counter.
C18_Witness ==
    /\ last.op = "GenerateFilename"
    /\ Len(last.prompt) = 200 /\ Len(cleanPrompt(last.prompt)) > 50
    /\ last.prefix # <<>> /\ last.count = 12
    /\ Len(Stem) = 50

\* The k-th alternative of the path resolved last: base_k.ext.
Alternative(k) ==
    TrimSuffix(last.path, Ext(last.path)) \o <<"_">> \o Itoa(k) \o Ext(last.path)

\* C15: EnsureUniqueFilename returns the path when no file is there, and else
\* base_k.ext for the smallest k >= 1 where no file is; so the paths resolved
\* and written one after another are all different.
C15_SmallestUnusedSuffix ==
    /\ (last.op = "EnsureUniqueFilename" /\ last.returns)
          => /\ IF last.path \notin DOMAIN fs THEN last.result = last.path
                ELSE \E k \in 1..(Cardinality(DOMAIN fs) + 1) :
                        /\ last.result = Alternative(k)
                        /\ Alternative(k) \notin DOMAIN fs
                        /\ \A j \in 1..(k - 1) : Alternative(j) \in DOMAIN fs
             /\ last.result \notin Range(last.written)
    /\ last.op = "WriteFile"
          => \A i, j \in 1..Len(last.written) :
                i # j => last.written[i] # last.written[j]

\* fox.png resolved and written three times in a row, fox_1.png being taken before.
C15_Witness ==
    /\ last.op = "WriteFile" /\ last.path = FoxPath
    /\ <<"f", "o", "x", "_", "1", ".", "p", "n", "g">> \in DOMAIN fs
    /\ last.written = <<<<"f", "o", "x", ".", "p", "n", "g">>, <<"f", "o", "x", "_", "2", ".", "p", "n", "g">>, <<"f", "o", "x", "_", "3", ".", "p", "n", "g">>>>

\* The images that an edit names all exist.
EditImagesExist == cmd.err.kind \notin {"base image not found", "input image not found"}

\* C16: an edit with 14 images in all is not rejected for their number; one with
\* 15 or more ends with an error, the count-limit error when the images exist,
\* having loaded no image, constructed no client and sent no request; a request
\* that an edit sends carries at most 14 inline image parts.
C16_EditImageCountLimit ==
    (cmd.name = "edit" /\ cmd.phase = "done")
    => /\ (1 + Len(cmd.flags.inputs) = 14) => cmd.err.kind # "too many input images"
       /\ (1 + Len(cmd.flags.inputs) >= 15)
             => /\ cmd.err # NoErr
                /\ EditImagesExist => cmd.err.kind = "too many input images"
                /\ cmd.loaded = 0 /\ cmd.clients = 0 /\ cmd.requests = 0
                /\ client = <<>> /\ inflight = <<>>
       /\ cmd.parts <= 14

\* An edit with 14 images that loaded and sent all of them.
C16_Witness ==
    /\ cmd.name = "edit" /\ cmd.phase = "done"
    /\ 1 + Len(cmd.flags.inputs) = 14
    /\ cmd.loaded = 14 /\ cmd.requests = 1 /\ cmd.parts = 14
    /\ cmd.err = NoErr

\* C19: a generate of N images attempts its N items one after another, whatever
\* failed before: no item's cycle is left unfinished, and when the command has
\* ended it has sent N requests, its success count is the number of files it
\* saved, between 0 and N, and every file it saved is still there.
C19_BatchAttemptsEveryItem ==
    (cmd.name = "generate" /\ cmd.err = NoErr)
    => /\ cmd.phase \in {"loop", "done"}
       /\ cmd.phase = "done"
             => /\ cmd.requests = cmd.total
                /\ cmd.successCount = Len(cmd.saved)
                /\ cmd.successCount \in 0..cmd.total
       /\ \A k \in 1..Len(cmd.saved) : cmd.saved[k] \in DOMAIN fs

\* C20: a generate of one image, or an edit, whose remote call or save failed
\* returns an error.
C20_SingleImageErrorReturned ==
    (/\ cmd.phase = "done"
     /\ (cmd.name = "generate" /\ cmd.flags.count = 1) \/ cmd.name = "edit"
     /\ cmd.requests >= 1 /\ cmd.saved = <<>>)
    => cmd.err # NoErr

\* An image that the caller supplied: an empty string stands for none.
IsImage(img) == img # ""

\* The payload of the request that is in flight.
Payload == inflight[1].body

\* C21: every payload sent has one content entry, of role "user"; its first part
\* is the instruction text and carries no image, and the parts after it are the
\* images supplied, as inline parts, each once and in the order supplied.
C21_TextThenImagesInOrder ==
    (last.op \in CallOps /\ inflight # <<>>)
    => /\ Len(Payload.contents) = 1
       /\ Payload.contents[1].role = "user"
       /\ LET parts == Payload.contents[1].parts
              images == SelectSeq(last.args.images, IsImage)
          IN  /\ Len(parts) = 1 + Len(images)
              /\ parts[1].text = OmitEmpty(last.args.prompt)
              /\ parts[1].inlineData = <<>>
              /\ \A k \in 1..Len(images) :
                    /\ parts[k + 1].text = <<>>
                    /\ parts[k + 1].inlineData = <<[mimeType |-> "image/png", data |-> images[k]]>>

\* A request in flight that carries "imgB" and then "imgA", as supplied.
C21_Witness ==
    /\ last.op = "GenerateContentWithImages" /\ inflight # <<>>
    /\ last.args.prompt = FoxPrompt
    /\ last.args.images = <<"imgB", "imgA">>
    /\ Len(Payload.contents[1].parts) = 3
    /\ Payload.contents[1].parts[2].inlineData[1].data = "imgB"

\* C22: a request that is sent has a non-empty instruction text as its first part.
C22_InstructionNeverEmpty ==
    (last.op \in CallOps /\ inflight # <<>>)
    => /\ last.args.prompt # <<>>
       /\ Payload.contents[1].parts[1].text # <<>>

\* C23: when SaveImage or ResizeAndSaveImage returns an error, no file is at
\* the output path unless one was there before the call.
C23_FailedWriteLeavesNoFile ==
    (last.op \in {"SaveImage", "ResizeAndSaveImage"} /\ last.err # NoErr)
    => (last.path \in DOMAIN fs => last.path \in last.before)

\* C24: EnsureUniqueFilename returns, whatever its probes report.
C24_EnsureUniqueFilenameReturns ==
    last.op = "EnsureUniqueFilename" => last.returns

\* C25: invocations that ran at the same time with the same prompt and output
\* directory saved to different paths, and the file of each is still the one
\* it wrote.
C25_ConcurrentWritesDistinct ==
    cmd.phase = "race"
    => \A p, q \in Procs :
          (p # q /\ cmd.procs[p].saved # <<>> /\ cmd.procs[q].saved # <<>>)
          => /\ cmd.procs[p].saved # cmd.procs[q].saved
             /\ fs[cmd.procs[p].saved[1]].bytes = RaceData(p).id

\* C26: the stem of the file name neither begins nor ends with an underscore.
C26_StemEdgesNotUnderscore ==
    (last.op = "GenerateFilename" /\ Stem # <<>>)
    => Stem[1] # "_" /\ Stem[Len(Stem)] # "_"

====
